---- MODULE Spec2Model ----
(***************************************************************************)
(* "Login with SendSeven" (login-with-sendseven/python/app.py): the OAuth2 *)
(* Authorization Code + PKCE relying party.  The Flask session, the        *)
(* module-level JWKS cache and the four routes /login, /callback, /refresh *)
(* and /logout are modelled; every network call is an input of the action  *)
(* that makes it.  Two further programs of the repository follow it: the   *)
(* echo bot (echo-bot/python/echo_bot.py) and the webhook listener         *)
(* (webhook-listener/python/webhook_server.py), each with its own          *)
(* variables and specification.                                            *)
(*                                                                         *)
(* Absent values (None, a missing dict key, a missing or empty query       *)
(* parameter) are 0 for numbers and "" for strings.                        *)
(***************************************************************************)
EXTENDS Integers, FiniteSets, Sequences, TLC

VARIABLES
    session,       \* the Flask session of one user agent
    JWKS_CACHE,    \* module-level key cache {"keys", "fetched_at"}
    now,           \* time.time()
    providerKeys,  \* the kids the provider publishes at its jwks_uri
    logins,        \* number of /login requests served (source of fresh values)
    consumed,      \* states whose callback completed successfully (history)
    last,          \* what the last request did (history)
    req,           \* in-flight /callback requests (interleaved specification)
    fetch,         \* threads inside get_jwks (interleaved specification)
    origin,        \* which fetch wrote each entry of JWKS_CACHE (history)
    cancelled,     \* states whose FlowState a logout removed (history)
    verifier,      \* the last call of generate_code_verifier and its result
    processed_deliveries,  \* echo bot: module-level set of delivery IDs
    handling,      \* echo bot: in-flight webhook requests
    replies,       \* echo bot: replies sent successfully per delivery ID (history)
    hook           \* webhook listener: the last request and its response

(* The variables of the other programs and of the helper specification *)
others == <<verifier, processed_deliveries, handling, replies, hook>>

vars == <<session, JWKS_CACHE, now, providerKeys, logins, consumed, last, req,
          fetch, origin, cancelled, others>>

----------------------------------------------------------------------------
(* Bounds *)

MaxLogins == 2
MaxTicks == 2
MaxLength == 130

(* Program constant: the JWKS cache lifetime in seconds *)
TTL == 3600

(* Program constants: the default length argument of generate_code_verifier *)
(* and the number of characters it keeps                                    *)
DefaultLength == 64
MaxVerifierChars == 128

(* The clock moves in steps a little over half the cache lifetime, so that *)
(* one step leaves the cache fresh and two steps expire it.                *)
Tick == (TTL \div 2) + 1
(* time.time() is far beyond TTL, so the initial fetched_at of 0 is expired *)
StartTime == 2 * TTL

Kids == {1, 2}
Users == {1, 2}
Flaws == {"none", "bad_signature", "expired", "issuer", "audience"}
StateParams == 0..(MaxLogins + 1)      \* 0: missing or empty; MaxLogins+1: forged
Requests == {1, 2}
Threads == {1, 2}
DeliveryIds == {1, 2}

----------------------------------------------------------------------------
(* Values *)

NoIdToken ==
    [present |-> FALSE, kid |-> 0, flaw |-> "none", nonce |-> 0, sub |-> 0]

NoTokens ==
    [present |-> FALSE, access_token |-> 0, refresh_token |-> 0,
     id_token |-> NoIdToken]

EmptySession ==
    [user |-> 0, tokens |-> NoTokens,
     oauth_state |-> 0, oauth_nonce |-> 0, oauth_code_verifier |-> 0]

(* A token response: {"access_token", "refresh_token"?, "id_token"?} *)
Tok(at, rt, idt) ==
    [present |-> TRUE, access_token |-> at, refresh_token |-> rt,
     id_token |-> idt]

(* Responses of the token endpoint to a refresh_token grant: the refresh   *)
(* token is omitted (0), repeated (1) or rotated (2).                      *)
RefreshResponses == { Tok(2, rt, NoIdToken) : rt \in {0, 1, 2} }

----------------------------------------------------------------------------
(* PKCE helpers: secrets.token_urlsafe draws fresh random values; the n-th *)
(* login gets the values numbered n.                                       *)

generate_code_verifier(n) == n

generate_state(n) == n

generate_nonce(n) == n

(* The number of characters of a code verifier.  secrets.token_urlsafe     *)
(* encodes nbytes random bytes in base64 without padding: four characters  *)
(* for every three bytes, two or three for a remainder of one or two.      *)
token_urlsafe_len(nbytes) == (4 * nbytes + 2) \div 3

(* text[:k] *)
SliceLenMut(len, k) == len

SliceLen(len, k) == IF len > k THEN k ELSE len

code_verifier_len(length) == SliceLen(token_urlsafe_len(length), MaxVerifierChars)

NoVerifier == [length |-> 0, chars |-> 0]

(* hashlib.sha256(...).digest() and base64.urlsafe_b64encode(...) with the *)
(* padding stripped: conversions kept symbolic, a value tagged with the    *)
(* conversion applied to it.                                               *)
sha256(data) == <<"sha256", data>>

urlsafe_b64encode_nopad(digest) == <<"base64url", digest>>

generate_code_challenge(code_verifier) ==
    urlsafe_b64encode_nopad(sha256(code_verifier))

(* Configuration read from the environment *)
CLIENT_ID == "client_id"
REDIRECT_URI == "redirect_uri"

(* The query of the authorization URL built by /login *)
AuthorizeParamsMut(state, code_challenge, nonce) ==
    [client_id |-> CLIENT_ID, redirect_uri |-> REDIRECT_URI,
     response_type |-> "code",
     scope |-> {"openid", "profile", "email", "offline_access"},
     state |-> state + 1, code_challenge |-> code_challenge,
     code_challenge_method |-> "S256", nonce |-> nonce]

AuthorizeParams(state, code_challenge, nonce) ==
    [client_id |-> CLIENT_ID, redirect_uri |-> REDIRECT_URI,
     response_type |-> "code",
     scope |-> {"openid", "profile", "email", "offline_access"},
     state |-> state, code_challenge |-> code_challenge,
     code_challenge_method |-> "S256", nonce |-> nonce]

(* A response that is no redirect to the authorization endpoint *)
NoLocation ==
    [client_id |-> "", redirect_uri |-> "", response_type |-> "", scope |-> {},
     state |-> 0, code_challenge |-> <<>>, code_challenge_method |-> "",
     nonce |-> 0]

----------------------------------------------------------------------------
(* OIDC discovery and JWKS *)

get_jwks(cache, t, resp, prov) ==
    IF t - cache.fetched_at > TTL
    THEN IF resp = "fail"
         THEN [raised |-> TRUE, cache |-> cache, fetches |-> 1]
         ELSE [raised |-> FALSE,
               cache |-> [keys |-> IF resp = "nokeys" THEN {} ELSE prov,
                          fetched_at |-> t],
               fetches |-> 1]
    ELSE [raised |-> FALSE, cache |-> cache, fetches |-> 0]

KeyFound(kid, keys) == kid \in keys

NonceMismatchMut(claim, nonce) == claim # 0 /\ claim # nonce

NonceMismatch(claim, nonce) == claim # nonce

verify_id_token(tok, nonce, cache, t, disc, resp, prov) ==
    IF disc = "fail"
    THEN [outcome |-> "discovery_error", cache |-> cache,
          discFetches |-> 1, jwksFetches |-> 0]
    ELSE LET j == get_jwks(cache, t, resp, prov)
             out == IF j.raised THEN "jwks_error"
                    ELSE IF ~KeyFound(tok.kid, j.cache.keys) THEN "unknown_key"
                    ELSE IF tok.flaw # "none" THEN tok.flaw
                    ELSE IF NonceMismatch(tok.nonce, nonce) THEN "nonce_mismatch"
                    ELSE "ok"
         IN [outcome |-> out, cache |-> j.cache,
             discFetches |-> 1, jwksFetches |-> j.fetches]

----------------------------------------------------------------------------
(* Session helpers *)

(* login_required: the guard of /refresh and /api/user *)
LoggedInMut(sess) == TRUE

LoggedIn(sess) == sess.user # 0

StoreFlowStateKeepsPending(sess, n) ==
    IF sess.oauth_state # 0 THEN sess
    ELSE [sess EXCEPT !.oauth_state = generate_state(n),
                      !.oauth_nonce = generate_nonce(n),
                      !.oauth_code_verifier = generate_code_verifier(n)]

StoreFlowStateMut(sess, n) ==
    [sess EXCEPT !.oauth_state = generate_state(n),
                 !.oauth_code_verifier = generate_code_verifier(n)]

StoreFlowState(sess, n) ==
    [sess EXCEPT !.oauth_state = generate_state(n),
                 !.oauth_nonce = generate_nonce(n),
                 !.oauth_code_verifier = generate_code_verifier(n)]

(* if not stored_state or state != stored_state *)
StateCheckFailsMut(stored_state, state) == stored_state = 0

StateCheckFails(stored_state, state) ==
    stored_state = 0 \/ state # stored_state

(* session.pop of the three oauth_* keys *)
PopFlowStateMut(sess) == sess

PopFlowState(sess) ==
    [sess EXCEPT !.oauth_state = 0, !.oauth_nonce = 0,
                 !.oauth_code_verifier = 0]

(* session["user"] = user_info; session["tokens"] = tokens *)
StoreLoginMut(sess, user_info, tokens) == [sess EXCEPT !.user = user_info]

StoreLogin(sess, user_info, tokens) ==
    [sess EXCEPT !.user = user_info, !.tokens = tokens]

(* session.clear() *)
ClearKeepsFlowState(sess) == [sess EXCEPT !.user = 0, !.tokens = NoTokens]

ClearMut(sess) == [sess EXCEPT !.tokens = NoTokens]

Clear(sess) == EmptySession

(* if not refresh_token *)
NoRefreshTokenMut(tokens) == ~tokens.present

NoRefreshToken(tokens) == tokens.refresh_token = 0

----------------------------------------------------------------------------
(* Inputs of a request: query parameters and the responses of the network  *)
(* calls the handler makes.  A response the handler never asks for is left *)
(* at its first value.                                                     *)

CallbackArgs ==
    [error : {"", "access_denied", "server_error"}, code : {0, 1},
     state : StateParams]

(* error = request.args.get("error"); if error *)
ProviderErrorMut(args) == args.error # "" /\ args.code = 0

ProviderError(args) == args.error # ""

(* if not code or not state *)
MissingParamMut(args) == args.code = 0 /\ args.state = 0

MissingParam(args) == args.code = 0 \/ args.state = 0

Net(token, discovery, jwks, userinfo) ==
    [token |-> token, discovery |-> discovery, jwks |-> jwks,
     userinfo |-> userinfo]

NoNet == Net(NoTokens, "ok", "ok", 0)

(* ID tokens a callback can be handed when the flow's nonce is `nonce`:    *)
(* sound ones, and ones with one thing wrong (a failed signature or claim  *)
(* check, no nonce claim, another flow's nonce).                           *)
(* The user who signed in at the provider, the subject of its ID tokens *)
Subject == 1

SoundIdToken(k, nonce) ==
    [present |-> TRUE, kid |-> k, flaw |-> "none", nonce |-> nonce,
     sub |-> Subject]

BadIdTokens(nonce) ==
    { [present |-> TRUE, kid |-> k, flaw |-> f, nonce |-> nonce,
       sub |-> Subject] :
          k \in Kids, f \in Flaws \ {"none"} }
    \cup { SoundIdToken(k, c) : k \in Kids, c \in {0, nonce + 1} }

(* The network a callback can meet.  userinfo 0: the profile fetch fails.  *)
(* Responses the handler does not get to are left at one value.            *)
CallbackNet(nonce) ==
    {NoNet}
    \cup { Net(Tok(1, rt, NoIdToken), "ok", "ok", u) :
               rt \in {0, 1}, u \in {0} \cup Users }
    \cup { Net(Tok(1, 1, SoundIdToken(1, nonce)), dj[1], dj[2], 1) :
               dj \in {<<"fail", "ok">>, <<"ok", "fail">>, <<"ok", "nokeys">>} }
    \cup { Net(Tok(1, 1, t), "ok", "ok", 1) : t \in BadIdTokens(nonce) }
    \cup { Net(Tok(1, rt, SoundIdToken(k, nonce)), "ok", "ok", u) :
               rt \in {0, 1}, k \in Kids, u \in {0} \cup Users }

(* The result of a handler: the session it leaves, what it answers, which  *)
(* calls it made and (in v) the key cache it leaves; for /login the query  *)
(* of its redirect; for /callback the code_verifier it sent to the token   *)
(* endpoint and the nonce it passed to verify_id_token (0: none).          *)
AnswerMut(sess, result, passed, tokenCalls, v, userinfoCalls) ==
    [session |-> IF result = "userinfo_failed" THEN EmptySession ELSE sess,
     cache |-> v.cache, result |-> result, passed |-> passed,
     tokenCalls |-> tokenCalls, verify |-> v.outcome,
     discFetches |-> v.discFetches, jwksFetches |-> v.jwksFetches,
     userinfoCalls |-> userinfoCalls, revokeCalls |-> 0, revoke |-> "none",
     location |-> NoLocation, code_verifier |-> 0, nonce |-> 0]

Answer(sess, result, passed, tokenCalls, v, userinfoCalls) ==
    [session |-> sess, cache |-> v.cache, result |-> result, passed |-> passed,
     tokenCalls |-> tokenCalls, verify |-> v.outcome,
     discFetches |-> v.discFetches, jwksFetches |-> v.jwksFetches,
     userinfoCalls |-> userinfoCalls, revokeCalls |-> 0, revoke |-> "none",
     location |-> NoLocation, code_verifier |-> 0, nonce |-> 0]

(* verify_id_token was not called *)
NoVerify(cache) ==
    [outcome |-> "skipped", cache |-> cache, discFetches |-> 0, jwksFetches |-> 0]

----------------------------------------------------------------------------
(* /login *)

login(sess, n, cache) ==
    LET code_verifier == generate_code_verifier(n)
        code_challenge == generate_code_challenge(code_verifier)
        state == generate_state(n)
        nonce == generate_nonce(n)
    IN [Answer(StoreFlowState(sess, n), "redirect", FALSE, 0,
               NoVerify(cache), 0)
           EXCEPT !.location = AuthorizeParams(state, code_challenge, nonce)]

----------------------------------------------------------------------------
(* /callback *)

callback(sess, args, net, cache, t, prov) ==
    IF ProviderError(args)
    THEN Answer(sess, args.error, FALSE, 0, NoVerify(cache), 0)
    ELSE IF MissingParam(args)
    THEN Answer(sess, "invalid_request", FALSE, 0, NoVerify(cache), 0)
    ELSE IF StateCheckFails(sess.oauth_state, args.state)
    THEN Answer(sess, "invalid_state", FALSE, 0, NoVerify(cache), 0)
    ELSE LET code_verifier == sess.oauth_code_verifier
             nonce == sess.oauth_nonce
             tokens == net.token
             v == IF tokens.id_token.present
                  THEN verify_id_token(tokens.id_token, nonce, cache,
                                       t, net.discovery, net.jwks, prov)
                  ELSE NoVerify(cache)
             a == IF ~tokens.present
                  THEN Answer(sess, "token_exchange_failed", TRUE, 1,
                              NoVerify(cache), 0)
                  ELSE IF v.outcome \notin {"ok", "skipped"}
                  THEN Answer(sess, "id_token_verification_failed", TRUE, 1, v, 0)
                  ELSE IF net.userinfo = 0
                  THEN Answer(sess, "userinfo_failed", TRUE, 1, v, 1)
                  ELSE Answer(PopFlowState(StoreLogin(sess, net.userinfo, tokens)),
                              "ok", TRUE, 1, v, 1)
         IN [a EXCEPT !.code_verifier = code_verifier,
                      !.nonce = IF tokens.id_token.present THEN nonce ELSE 0]

----------------------------------------------------------------------------
(* /refresh *)

RefreshNet == RefreshResponses \cup {NoTokens}

refresh(sess, new_tokens, cache) ==
    IF ~LoggedIn(sess)
    THEN Answer(sess, "login_required", FALSE, 0, NoVerify(cache), 0)
    ELSE IF NoRefreshToken(sess.tokens)
    THEN Answer(sess, "no_refresh_token", FALSE, 0, NoVerify(cache), 0)
    ELSE IF ~new_tokens.present
    THEN Answer(Clear(sess), "refresh_failed", FALSE, 1, NoVerify(cache), 0)
    ELSE Answer([sess EXCEPT !.tokens = new_tokens], "ok", FALSE, 1,
                NoVerify(cache), 0)

----------------------------------------------------------------------------
(* /logout: revocation is attempted when a refresh token is stored and its *)
(* outcome (2xx, 5xx, transport error) is ignored.                         *)

RevokeOutcomes == {"ok", "http500", "transport_error"}

(* Whether the revocation's outcome ends the handler: requests.post raises *)
(* for no HTTP status, and the RequestException of a transport error is    *)
(* caught.                                                                 *)
RevokeAbortsMut(outcome) == outcome = "transport_error"

RevokeAborts(outcome) == FALSE

logout(sess, cache, revoke) ==
    LET attempted == sess.tokens.refresh_token # 0
    IN IF attempted /\ RevokeAborts(revoke)
       THEN [Answer(sess, "error", FALSE, 0, NoVerify(cache), 0)
                EXCEPT !.revokeCalls = 1, !.revoke = revoke]
       ELSE [Answer(Clear(sess), "ok", FALSE, 0, NoVerify(cache), 0)
                EXCEPT !.revokeCalls = IF attempted THEN 1 ELSE 0,
                       !.revoke = IF attempted THEN revoke ELSE "none"]

----------------------------------------------------------------------------
(* /api/user: answers the stored user *)

api_user(sess, cache) ==
    IF ~LoggedIn(sess)
    THEN Answer(sess, "login_required", FALSE, 0, NoVerify(cache), 0)
    ELSE Answer(sess, "ok", FALSE, 0, NoVerify(cache), 0)

----------------------------------------------------------------------------
(* Echo bot (echo-bot/python/echo_bot.py): POST /webhooks/sendseven.       *)
(* A header that is absent is "" or 0.  A signature header is absent, has  *)
(* no "sha256=" prefix, or carries after the prefix the right digest, a    *)
(* wrong one, or text with a character outside ASCII.                      *)

WEBHOOK_SECRET == "secret"

Signatures ==
    {"", "digest", "sha256=right", "sha256=wrong", "sha256=nonascii"}

EchoRequests ==
    [signature : Signatures, timestamp : {0, 1},
     delivery_id : {0} \cup DeliveryIds,
     type : {"message.received", "message.sent"},
     direction : {"inbound", "outbound"}]

(* hmac.compare_digest raises TypeError for a str with non-ASCII characters *)
echo_verify_signature(signature) ==
    IF signature \notin {"sha256=right", "sha256=wrong", "sha256=nonascii"}
    THEN "False"
    ELSE IF signature = "sha256=nonascii" THEN "TypeError"
    ELSE IF signature = "sha256=right" THEN "True"
    ELSE "False"

(* if delivery_id in processed_deliveries *)
IsDuplicate(delivery_id, processed) == delivery_id \in processed

(* handle_webhook up to the call of send_reply: the response it returns,   *)
(* or "send" when it goes on to reply                                      *)
echo_checks(request, processed) ==
    IF request.signature = "" \/ request.timestamp = 0
          \/ request.delivery_id = 0
    THEN "400 missing_headers"
    ELSE IF IsDuplicate(request.delivery_id, processed)
    THEN "200 duplicate"
    ELSE IF WEBHOOK_SECRET # ""
            /\ echo_verify_signature(request.signature) = "TypeError"
    THEN "500"
    ELSE IF WEBHOOK_SECRET # ""
            /\ echo_verify_signature(request.signature) # "True"
    THEN "401 invalid_signature"
    ELSE IF request.type # "message.received"
    THEN "200 skipped"
    ELSE IF request.direction # "inbound"
    THEN "200 outbound"
    ELSE "send"

NoRequest ==
    [signature |-> "", timestamp |-> 0, delivery_id |-> 0,
     type |-> "message.sent", direction |-> "outbound"]

(* A thread outside handle_webhook, with the response it gave last *)
NoDelivery == [pc |-> "idle", request |-> NoRequest, response |-> "none"]

----------------------------------------------------------------------------
(* Webhook listener (webhook-listener/python/webhook_server.py): POST      *)
(* /webhooks/sendseven.  The body is no JSON, JSON that is no object (an   *)
(* array), or an object with a "type"; three of the event types that have  *)
(* a handler stand for all of them.                                        *)

HandledEvents == {"message.received", "contact.created", "link.clicked"}

(* Only an object has a type, only a verification a challenge, and only a  *)
(* handler that is called can raise.                                       *)
HookRequests ==
    { q \in [body : {"invalid_json", "array", "object"},
             type : HandledEvents
                       \cup {"sendseven_verification", "unknown.event", ""},
             challenge : {0, 1},
             signature : Signatures, timestamp : {0, 1},
             delivery_id : {0} \cup DeliveryIds,
             event : {"", "message.received"},
             handler_raises : BOOLEAN] :
        /\ q.body # "object" => q.type = ""
        /\ q.type # "sendseven_verification" => q.challenge = 0
        /\ q.type \notin HandledEvents => ~q.handler_raises }

(* The same function as the echo bot's *)
verify_signature(signature) ==
    IF signature \notin {"sha256=right", "sha256=wrong", "sha256=nonascii"}
    THEN "False"
    ELSE IF signature = "sha256=nonascii" THEN "TypeError"
    ELSE IF signature = "sha256=right" THEN "True"
    ELSE "False"

(* if not all([signature, timestamp, delivery_id, event_type]) *)
HeadersMissing(request) ==
    \/ request.signature = ""
    \/ request.timestamp = 0
    \/ request.delivery_id = 0
    \/ request.event = ""

(* A response: status, what the body says, the delivery_id in it, whether  *)
(* verify_signature returned True, the event handler that was called and   *)
(* whether it raised.                                                      *)
Response(status, body, delivery_id, verified, handler) ==
    [status |-> status, body |-> body, delivery_id |-> delivery_id,
     verified |-> verified, handler |-> handler, raised |-> FALSE]

handle_webhook(request) ==
    IF request.body = "invalid_json"
    THEN Response(400, "invalid_json", 0, FALSE, "none")
    ELSE IF request.body = "array"
    THEN Response(500, "AttributeError", 0, FALSE, "none")
    ELSE IF request.type = "sendseven_verification"
    THEN IF request.challenge = 0
         THEN Response(500, "TypeError", 0, FALSE, "none")
         ELSE Response(200, "challenge", 0, FALSE, "none")
    ELSE IF HeadersMissing(request)
    THEN Response(400, "missing_headers", 0, FALSE, "none")
    ELSE IF verify_signature(request.signature) = "TypeError"
    THEN Response(500, "TypeError", 0, FALSE, "none")
    ELSE IF verify_signature(request.signature) # "True"
    THEN Response(401, "invalid_signature", 0, FALSE, "none")
    ELSE LET handler == IF request.type \in HandledEvents THEN request.type
                        ELSE "none"
         IN [Response(200, "success", request.delivery_id, TRUE, handler)
                EXCEPT !.raised = handler # "none" /\ request.handler_raises]

NoHook ==
    [pc |-> "none",
     request |-> [body |-> "invalid_json", type |-> "", challenge |-> 0,
                  signature |-> "", timestamp |-> 0, delivery_id |-> 0,
                  event |-> "", handler_raises |-> FALSE],
     response |-> Response(0, "none", 0, FALSE, "none")]

----------------------------------------------------------------------------
(* State machine *)

NoArgs == [error |-> "", code |-> 0, state |-> 0]

IdleRequest == [pc |-> "idle", snap |-> EmptySession, args |-> NoArgs]

(* History of the last request: its route, the session it read, its query  *)
(* parameters, the token response it got, whether its state had already    *)
(* been consumed by a successful callback, whether the key cache it found  *)
(* was younger than its lifetime, and its answer.                          *)
Record(op, pre, args, tok, ans) ==
    [op |-> op, pre |-> pre, args |-> args, tok |-> tok,
     replay |-> args.state \in consumed,
     fresh |-> now - JWKS_CACHE.fetched_at <= TTL, ans |-> ans]

Init ==
    /\ session = EmptySession
    /\ JWKS_CACHE = [keys |-> {}, fetched_at |-> 0]
    /\ now = StartTime
    /\ providerKeys = {1}
    /\ logins = 0
    /\ consumed = {}
    /\ last = Record("none", EmptySession, NoArgs, NoTokens,
                     Answer(EmptySession, "none", FALSE, 0,
                            NoVerify([keys |-> {}, fetched_at |-> 0]), 0))
    /\ req = [r \in Requests |-> IdleRequest]
    /\ fetch = [t \in Threads |-> "idle"]
    /\ origin = [keys |-> 0, fetched_at |-> 0, fetches |-> 0,
                 document |-> "initial"]
    /\ cancelled = {}
    /\ verifier = NoVerifier
    /\ processed_deliveries = {}
    /\ handling = [t \in Threads |-> NoDelivery]
    /\ replies = [d \in DeliveryIds |-> 0]
    /\ hook = NoHook

(* GET /login *)
Login ==
    /\ logins < MaxLogins
    /\ logins' = logins + 1
    /\ LET a == login(session, logins + 1, JWKS_CACHE)
       IN /\ session' = a.session
          /\ last' = Record("login", session, NoArgs, NoTokens, a)
    /\ UNCHANGED <<JWKS_CACHE, now, providerKeys, consumed, req, fetch, origin, cancelled, others>>

(* The responses a callback with these parameters can meet *)
NetFor(sess, args) ==
    IF callback(sess, args, NoNet, JWKS_CACHE, now, providerKeys).passed
    THEN CallbackNet(sess.oauth_nonce) ELSE {NoNet}

(* GET /callback, served from start to end *)
Callback ==
    \E args \in CallbackArgs :
      \E net \in NetFor(session, args) :
        LET a == callback(session, args, net, JWKS_CACHE, now, providerKeys)
        IN /\ session' = a.session
           /\ JWKS_CACHE' = a.cache
           /\ consumed' = IF a.result = "ok" THEN consumed \cup {args.state}
                          ELSE consumed
           /\ last' = Record("callback", session, args, net.token, a)
           /\ UNCHANGED <<now, providerKeys, logins, req, fetch, origin, cancelled, others>>

(* GET /refresh *)
Refresh ==
    \E new_tokens \in
          (IF LoggedIn(session) /\ ~NoRefreshToken(session.tokens)
           THEN RefreshNet ELSE {NoTokens}) :
        LET a == refresh(session, new_tokens, JWKS_CACHE)
        IN /\ session' = a.session
           /\ last' = Record("refresh", session, NoArgs, new_tokens, a)
           /\ UNCHANGED <<JWKS_CACHE, now, providerKeys, logins, consumed, req, fetch, origin, cancelled, others>>

(* GET /logout *)
Logout ==
    \E revoke \in
          (IF session.tokens.refresh_token # 0 THEN RevokeOutcomes
           ELSE {"none"}) :
        LET a == logout(session, JWKS_CACHE, revoke)
        IN /\ session' = a.session
           /\ cancelled' = cancelled \cup ({session.oauth_state} \ {0})
           /\ last' = Record("logout", session, NoArgs, NoTokens, a)
           /\ UNCHANGED <<JWKS_CACHE, now, providerKeys, logins, consumed, req, fetch, origin, others>>

(* GET /api/user *)
ApiUser ==
    LET a == api_user(session, JWKS_CACHE)
    IN /\ session' = a.session
       /\ last' = Record("api_user", session, NoArgs, NoTokens, a)
       /\ UNCHANGED <<JWKS_CACHE, now, providerKeys, logins, consumed, req, fetch, origin, cancelled, others>>

(* The session routes, requests served one after another *)
Next == Login \/ Callback \/ Refresh \/ Logout \/ ApiUser

Spec == Init /\ [][Next]_vars

----------------------------------------------------------------------------
(* The key cache over time: logins and callbacks while the clock advances  *)
(* and the provider rotates its signing key.                               *)

(* Time passes *)
TickClock ==
    /\ now < StartTime + MaxTicks * Tick
    /\ now' = now + Tick
    /\ UNCHANGED <<session, JWKS_CACHE, providerKeys, logins, consumed, last, req, fetch, origin, cancelled, others>>

(* The provider rotates its signing key: the next kid replaces the one in  *)
(* use.                                                                    *)
RotateKeys ==
    /\ \E k \in providerKeys :
         /\ k + 1 \in Kids
         /\ providerKeys' = {k + 1}
    /\ UNCHANGED <<session, JWKS_CACHE, now, logins, consumed, last, req, fetch, origin, cancelled, others>>

NextKeys == Login \/ Callback \/ TickClock \/ RotateKeys

SpecKeys == Init /\ [][NextKeys]_vars

----------------------------------------------------------------------------
(* Interleaved callbacks: a request reads the session when it starts and   *)
(* writes it back when it ends, and its network calls lie in between.      *)

CallbackBegin(r) ==
    /\ req[r].pc = "idle"
    /\ \E args \in CallbackArgs :
         LET a == callback(session, args, NoNet, JWKS_CACHE, now, providerKeys)
         IN IF a.passed
            THEN /\ req' = [req EXCEPT ![r] = [pc |-> "exchange",
                                               snap |-> session, args |-> args]]
                 /\ UNCHANGED last
            ELSE /\ last' = Record("callback", session, args, NoTokens, a)
                 /\ UNCHANGED req
    /\ UNCHANGED <<session, JWKS_CACHE, now, providerKeys, logins, consumed,
                   fetch, origin, cancelled, others>>

CallbackFinish(r) ==
    /\ req[r].pc = "exchange"
    /\ \E net \in CallbackNet(req[r].snap.oauth_nonce) :
         LET a == callback(req[r].snap, req[r].args, net, JWKS_CACHE, now,
                           providerKeys)
         IN /\ session' = IF a.session # req[r].snap THEN a.session ELSE session
            /\ JWKS_CACHE' = a.cache
            /\ consumed' = IF a.result = "ok"
                           THEN consumed \cup {req[r].args.state} ELSE consumed
            /\ last' = Record("callback", req[r].snap, req[r].args, net.token, a)
    /\ req' = [req EXCEPT ![r] = IdleRequest]
    /\ UNCHANGED <<now, providerKeys, logins, fetch, origin, cancelled, others>>

NextConc ==
    \/ Login
    \/ \E r \in Requests : CallbackBegin(r)
    \/ \E r \in Requests : CallbackFinish(r)

SpecConc == Init /\ [][NextConc]_vars

----------------------------------------------------------------------------
(* get_jwks statement by statement, called from several threads.  fetch[t] *)
(* is where thread t stands: "idle" outside get_jwks, "fetch" with its     *)
(* requests.get in flight, "store_time" between the assignment of          *)
(* JWKS_CACHE["keys"] and that of JWKS_CACHE["fetched_at"], "return"       *)
(* before it reads JWKS_CACHE["keys"] for its result.  origin numbers the  *)
(* fetches and remembers which one wrote the key list and which one the    *)
(* timestamp (0: the module's initial value), and the kind of document the *)
(* key list was taken from.                                                *)

(* if time.time() - JWKS_CACHE["fetched_at"] > 3600 *)
GetJwksCheck(t) ==
    /\ fetch[t] = "idle"
    /\ fetch' = [fetch EXCEPT ![t] =
                    IF now - JWKS_CACHE.fetched_at > TTL THEN "fetch"
                    ELSE "return"]
    /\ UNCHANGED <<session, JWKS_CACHE, now, providerKeys, logins, consumed,
                   last, req, origin, cancelled, others>>

(* response = requests.get(jwks_uri); response.raise_for_status();         *)
(* JWKS_CACHE["keys"] = response.json().get("keys", [])                    *)
GetJwksFetch(t) ==
    /\ fetch[t] = "fetch"
    /\ \E resp \in {"ok", "fail", "nokeys"} :
         IF resp = "fail"
         THEN /\ fetch' = [fetch EXCEPT ![t] = "idle"]
              /\ UNCHANGED <<JWKS_CACHE, origin>>
         ELSE /\ fetch' = [fetch EXCEPT ![t] = "store_time"]
              /\ JWKS_CACHE' =
                    [JWKS_CACHE EXCEPT
                        !.keys = IF resp = "nokeys" THEN {} ELSE providerKeys]
              /\ origin' = [origin EXCEPT !.fetches = @ + 1,
                                          !.keys = origin.fetches + 1,
                                          !.document = resp]
    /\ UNCHANGED <<session, now, providerKeys, logins, consumed, last, req, cancelled, others>>

(* JWKS_CACHE["fetched_at"] = time.time() *)
GetJwksStoreTime(t) ==
    /\ fetch[t] = "store_time"
    /\ fetch' = [fetch EXCEPT ![t] = "return"]
    /\ JWKS_CACHE' = [JWKS_CACHE EXCEPT !.fetched_at = now]
    /\ origin' = [origin EXCEPT !.fetched_at = origin.keys]
    /\ UNCHANGED <<session, now, providerKeys, logins, consumed, last, req, cancelled, others>>

(* return {"keys": JWKS_CACHE["keys"]} *)
GetJwksReturn(t) ==
    /\ fetch[t] = "return"
    /\ fetch' = [fetch EXCEPT ![t] = "idle"]
    /\ UNCHANGED <<session, JWKS_CACHE, now, providerKeys, logins, consumed,
                   last, req, origin, cancelled, others>>

NextJwks ==
    \/ \E t \in Threads : GetJwksCheck(t)
    \/ \E t \in Threads : GetJwksFetch(t)
    \/ \E t \in Threads : GetJwksStoreTime(t)
    \/ \E t \in Threads : GetJwksReturn(t)
    \/ TickClock
    \/ RotateKeys

SpecJwks == Init /\ [][NextJwks]_vars

----------------------------------------------------------------------------
(* generate_code_verifier called with any length argument; /login calls it *)
(* with the default.                                                       *)

GenerateCodeVerifier ==
    /\ \E length \in 0..MaxLength :
         verifier' = [length |-> length, chars |-> code_verifier_len(length)]
    /\ UNCHANGED <<session, JWKS_CACHE, now, providerKeys, logins, consumed,
                   last, req, fetch, origin, cancelled, processed_deliveries,
                   handling, replies, hook>>

NextVerifier == GenerateCodeVerifier

SpecVerifier == Init /\ [][NextVerifier]_vars

----------------------------------------------------------------------------
(* Echo bot: webhook deliveries handled by the threads of the server.  A   *)
(* request runs up to send_reply, whose HTTP call takes time, and then     *)
(* from the end of that call to its response.                              *)

(* handle_webhook, lines 75-129 *)
EchoBegin(t) ==
    /\ handling[t].pc = "idle"
    /\ \E request \in EchoRequests :
         LET r == echo_checks(request, processed_deliveries)
         IN handling' = [handling EXCEPT ![t] =
                IF r = "send"
                THEN [pc |-> "send", request |-> request, response |-> "none"]
                ELSE [pc |-> "idle", request |-> NoRequest, response |-> r]]
    /\ UNCHANGED <<session, JWKS_CACHE, now, providerKeys, logins, consumed,
                   last, req, fetch, origin, cancelled, verifier,
                   processed_deliveries, replies, hook>>

(* handle_webhook, lines 131-141: send_reply returns, or raises HTTPError  *)
(* or another exception                                                    *)
EchoSend(t) ==
    /\ handling[t].pc = "send"
    /\ \E outcome \in {"ok", "HTTPError", "Exception"} :
         LET d == handling[t].request.delivery_id
         IN /\ processed_deliveries' =
                  IF outcome = "ok" THEN processed_deliveries \cup {d}
                  ELSE processed_deliveries
            /\ replies' = IF outcome = "ok"
                          THEN [replies EXCEPT ![d] = @ + 1] ELSE replies
            /\ handling' = [handling EXCEPT ![t] =
                   [pc |-> "idle", request |-> NoRequest,
                    response |-> IF outcome = "ok" THEN "200 replied"
                                 ELSE "200 reply_failed"]]
    /\ UNCHANGED <<session, JWKS_CACHE, now, providerKeys, logins, consumed,
                   last, req, fetch, origin, cancelled, verifier, hook>>

NextEcho ==
    \/ \E t \in Threads : EchoBegin(t)
    \/ \E t \in Threads : EchoSend(t)

SpecEcho == Init /\ [][NextEcho]_vars

----------------------------------------------------------------------------
(* Webhook listener: one request served *)

HandleWebhook ==
    /\ \E request \in HookRequests :
         hook' = [pc |-> "done", request |-> request,
                  response |-> handle_webhook(request)]
    /\ UNCHANGED <<session, JWKS_CACHE, now, providerKeys, logins, consumed,
                   last, req, fetch, origin, cancelled, verifier,
                   processed_deliveries, handling, replies>>

NextHook == HandleWebhook

SpecHook == Init /\ [][NextHook]_vars

----------------------------------------------------------------------------
(* Properties.  `last` describes the request that led to the current       *)
(* state: last.pre is the session it read, session the one it left.        *)

(* The last request was a callback that got as far as the state check *)
ReachedStateCheck ==
    /\ last.op = "callback"
    /\ last.args.error = ""
    /\ last.args.code # 0
    /\ last.args.state # 0

(* Its state parameter is not the stored one, or none is stored *)
StateDiffers ==
    last.pre.oauth_state = 0 \/ last.args.state # last.pre.oauth_state

(* It ended in the state-mismatch error with nothing done *)
RejectedAsMismatch ==
    /\ last.ans.result = "invalid_state"
    /\ last.ans.tokenCalls = 0
    /\ session.user = last.pre.user
    /\ session.tokens = last.pre.tokens

(* C1 as stated: every callback whose state parameter differs from the     *)
(* stored state, or that finds no stored state, ends in the invalid-state  *)
(* error, calls the token endpoint not at all and leaves user and tokens.  *)
C1_AnyMismatchIsCsrfError ==
    (last.op = "callback" /\ StateDiffers) => RejectedAsMismatch

(* C1 amended: the same for every callback that carries no error parameter *)
(* and a non-empty code and state.                                         *)
C1_MismatchIsCsrfError ==
    (ReachedStateCheck /\ StateDiffers) => RejectedAsMismatch

(* C1 witness: an authenticated session with a pending login received a   *)
(* well-formed callback with another state.                                *)
C1_Witness ==
    /\ ReachedStateCheck
    /\ last.pre.oauth_state # 0
    /\ last.args.state # last.pre.oauth_state
    /\ last.pre.user # 0

(* C2 as stated: once a callback with state S has succeeded, every later   *)
(* callback carrying S ends in the state-mismatch error without a token    *)
(* call and without touching user and tokens.                              *)
C2_AnyReplayIsMismatch ==
    (last.op = "callback" /\ last.replay) => RejectedAsMismatch

(* C2 amended: the same for every later callback carrying S that has no    *)
(* error parameter and a non-empty code.                                   *)
C2_ReplayIsMismatch ==
    (ReachedStateCheck /\ last.replay) => RejectedAsMismatch

(* C2 witness: a well-formed callback replayed a consumed state on a       *)
(* session that the first callback had authenticated.                      *)
C2_Witness ==
    /\ ReachedStateCheck
    /\ last.replay
    /\ last.pre.user # 0
    /\ last.pre.oauth_state = 0

(* C3: of two callbacks of one session that carry the same state, at most  *)
(* one is past the state check, at the token exchange.                     *)
C3_OneCallbackAccepted ==
    \A r1, r2 \in Requests :
        (/\ r1 # r2
         /\ req[r1].pc = "exchange"
         /\ req[r2].pc = "exchange")
            => req[r1].args.state # req[r2].args.state

(* C4: after a callback that passed the state check, whether it succeeded  *)
(* or failed, the session holds no FlowState.                              *)
C4_FlowStateDestroyed ==
    (last.op = "callback" /\ last.ans.passed)
        => /\ session.oauth_state = 0
           /\ session.oauth_nonce = 0
           /\ session.oauth_code_verifier = 0

(* C5: a callback stores a Principal only after an ID token was verified   *)
(* in it; a token response without id_token authenticates nobody.          *)
C5_PrincipalOnlyAfterVerification ==
    (last.op = "callback" /\ last.ans.result = "ok")
        => (last.tok.id_token.present /\ last.ans.verify = "ok")

(* The last callback was handed an ID token whose nonce claim is missing   *)
(* or is not the nonce its login persisted.                                *)
WrongNonceIdToken ==
    /\ last.op = "callback"
    /\ last.ans.passed
    /\ last.tok.present
    /\ last.tok.id_token.present
    /\ last.tok.id_token.nonce # last.pre.oauth_nonce

(* C6: an ID token whose nonce claim is missing or differs from the        *)
(* persisted nonce is rejected, and the callback stores no user and no     *)
(* tokens.                                                                 *)
C6_WrongNonceRejected ==
    WrongNonceIdToken
        => /\ last.ans.verify \notin {"ok", "skipped"}
           /\ last.ans.result = "id_token_verification_failed"
           /\ last.ans.userinfoCalls = 0
           /\ session.user = last.pre.user
           /\ session.tokens = last.pre.tokens

(* C6 witness: a token with no nonce claim, sound otherwise, was rejected  *)
(* by the nonce check.                                                     *)
C6_Witness ==
    /\ WrongNonceIdToken
    /\ last.tok.id_token.nonce = 0
    /\ last.ans.verify = "nonce_mismatch"

(* C7: verification fails with the unknown-key error only after the key    *)
(* set was fetched anew in that verification.                              *)
C7_UnknownKeyAfterRefresh ==
    (last.op = "callback" /\ last.ans.verify = "unknown_key")
        => last.ans.jwksFetches >= 1

(* The last request was a refresh on an authenticated session *)
RefreshOnLogin == last.op = "refresh" /\ last.pre.user # 0

(* C8: a refresh on an authenticated session without refresh token answers *)
(* no_refresh_token, makes no token call and leaves the session as it was. *)
C8_NoRefreshTokenKeepsSession ==
    (RefreshOnLogin /\ last.pre.tokens.refresh_token = 0)
        => /\ last.ans.result = "no_refresh_token"
           /\ last.ans.tokenCalls = 0
           /\ session = last.pre

(* C8 witness *)
C8_Witness ==
    /\ RefreshOnLogin
    /\ last.pre.tokens.present
    /\ last.pre.tokens.refresh_token = 0

(* The provider rejected the last refresh *)
RefreshRejected ==
    /\ RefreshOnLogin
    /\ last.pre.tokens.refresh_token # 0
    /\ ~last.tok.present

(* C9: a refresh the provider rejects leaves the session logged out, is    *)
(* reported as refresh_failed and is tried once.                           *)
C9_RejectedRefreshLogsOut ==
    RefreshRejected
        => /\ session.user = 0
           /\ ~session.tokens.present
           /\ last.ans.result = "refresh_failed"
           /\ last.ans.tokenCalls = 1

(* C9 witness *)
C9_Witness == RefreshRejected /\ last.pre.tokens.present

(* C10: after a refresh the TokenSet is the one the provider returned or,  *)
(* if the refresh failed, the one held before.                             *)
C10_TokenSetNewOrKept ==
    RefreshOnLogin
        => \/ last.tok.present /\ session.tokens = last.tok
           \/ session.tokens = last.pre.tokens

(* C11: after a successful refresh whose response has no refresh_token the *)
(* session's TokenSet still holds the refresh token it held before.        *)
C11_RefreshTokenRetained ==
    (/\ RefreshOnLogin
     /\ last.ans.result = "ok"
     /\ last.tok.refresh_token = 0)
        => session.tokens.refresh_token = last.pre.tokens.refresh_token

(* C12: whatever the revocation call does, logout leaves the session       *)
(* empty; the revocation is attempted on the session as it was, and only   *)
(* when that session stores a refresh token.                               *)
C12_LogoutAlwaysClears ==
    last.op = "logout"
        => /\ session = EmptySession
           /\ last.ans.result = "ok"
           /\ last.ans.revokeCalls =
                  (IF last.pre.tokens.refresh_token # 0 THEN 1 ELSE 0)

(* C12 witness: the revocation met a transport error while a login was     *)
(* pending on an authenticated session.                                    *)
C12_Witness ==
    /\ last.op = "logout"
    /\ last.ans.revoke = "transport_error"
    /\ last.pre.user # 0
    /\ last.pre.oauth_state # 0

(* C13: refresh and api_user on a session without user are turned away by  *)
(* the guard with no network call and no change of the session, so a       *)
(* refresh-token grant is only ever sent for a session that holds a user.  *)
C13_GuardedWithoutUser ==
    /\ (last.op \in {"refresh", "api_user"} /\ last.pre.user = 0)
          => /\ last.ans.result = "login_required"
             /\ last.ans.tokenCalls = 0
             /\ session = last.pre
    /\ (last.op = "refresh" /\ last.ans.tokenCalls > 0) => last.pre.user # 0

(* C13 witness: a refresh on a session with a pending login and no user *)
C13_Witness ==
    /\ last.op = "refresh"
    /\ last.pre.user = 0
    /\ last.pre.oauth_state # 0

(* The last callback did nothing but answer `result` *)
AnsweredOnly(result) ==
    /\ last.ans.result = result
    /\ ~last.ans.passed
    /\ last.ans.tokenCalls = 0
    /\ session = last.pre

(* C14: a callback with an error parameter answers that error verbatim,    *)
(* whatever code and state it carries, with no state check, no token       *)
(* exchange and the session as it was.                                     *)
C14_ProviderErrorVerbatim ==
    (last.op = "callback" /\ last.args.error # "")
        => AnsweredOnly(last.args.error)

(* C14 witness: the error came with a code and the stored state *)
C14_Witness ==
    /\ last.op = "callback"
    /\ last.args.error = "server_error"
    /\ last.args.code # 0
    /\ last.pre.oauth_state # 0
    /\ last.args.state = last.pre.oauth_state

(* C15: a callback without error parameter that lacks code or state        *)
(* answers invalid_request before the state comparison, with no token      *)
(* call and the session as it was.                                         *)
C15_MissingParamIsInvalidRequest ==
    (/\ last.op = "callback"
     /\ last.args.error = ""
     /\ (last.args.code = 0 \/ last.args.state = 0))
        => AnsweredOnly("invalid_request")

(* C15 witness: the code is missing and the state is the stored one *)
C15_Witness ==
    /\ last.op = "callback"
    /\ last.args.error = ""
    /\ last.args.code = 0
    /\ last.pre.oauth_state # 0
    /\ last.args.state = last.pre.oauth_state

(* C16: the session holds a user exactly when it holds tokens *)
C16_UserIffTokens == (session.user # 0) <=> session.tokens.present

(* C16 witness: an authenticated session after a callback whose profile    *)
(* fetch failed, the token exchange having succeeded.                      *)
C16_Witness ==
    /\ session.user # 0
    /\ last.op = "callback"
    /\ last.ans.result = "userinfo_failed"
    /\ last.tok.present

(* C17: a verification that finds the key cache within its lifetime (so    *)
(* that metadata and keys were fetched less than TTL ago) fetches neither  *)
(* the discovery document nor the JWKS; one that finds it expired and gets *)
(* the discovery document fetches the JWKS once.                           *)
C17_ServedFromCache ==
    (last.op = "callback" /\ last.ans.verify # "skipped")
        => /\ last.fresh
                => (last.ans.discFetches = 0 /\ last.ans.jwksFetches = 0)
           /\ (~last.fresh /\ last.ans.verify # "discovery_error")
                => last.ans.jwksFetches = 1

(* C18: whenever a thread is about to read the key list for its result,    *)
(* the key list and the timestamp in the cache were written by the same    *)
(* fetch: what it observes is one complete snapshot.                       *)
C18_CompleteSnapshot ==
    \A t \in Threads :
        fetch[t] = "return" => origin.keys = origin.fetched_at

(* C19: at most one JWKS fetch is in flight *)
C19_OneFetchInFlight ==
    Cardinality({ t \in Threads : fetch[t] = "fetch" }) <= 1

(* The failure classes of ID-token verification (app.py:106-120 and the    *)
(* checks inside jwt.decode).                                              *)
FailureClasses ==
    {"bad_signature", "issuer", "audience", "expired", "nonce_mismatch",
     "unknown_key"}

VerificationFailed(r) == r.op = "callback" /\ r.ans.verify \in FailureClasses

(* C20: two callbacks whose ID-token verification failed in different      *)
(* failure classes are answered with different error codes.                *)
C20_DistinctErrorCodes ==
    [][(/\ VerificationFailed(last)
        /\ VerificationFailed(last')
        /\ last.ans.verify # last'.ans.verify)
       => last.ans.result # last'.ans.result]_vars

(* C21: the redirect of every login carries response_type=code, the        *)
(* client_id, the redirect_uri, a scope with openid, the method S256, the  *)
(* state and nonce that this login stored in the session, and the S256     *)
(* challenge of the code verifier it stored.                               *)
C21_AuthorizationRequest ==
    last.op = "login" =>
        LET q == last.ans.location
        IN /\ q.response_type = "code"
           /\ q.client_id = CLIENT_ID
           /\ q.redirect_uri = REDIRECT_URI
           /\ "openid" \in q.scope
           /\ q.code_challenge_method = "S256"
           /\ q.state = session.oauth_state
           /\ q.nonce = session.oauth_nonce
           /\ q.code_challenge =
                 urlsafe_b64encode_nopad(sha256(session.oauth_code_verifier))
           /\ session.oauth_state # 0

(* A second login of a session, which replaces a pending FlowState *)
C21_Witness ==
    /\ last.op = "login"
    /\ last.pre.oauth_state # 0
    /\ last.ans.location.state = session.oauth_state
    /\ last.ans.location.state # last.pre.oauth_state

(* C24: generate_code_verifier returns at most 128 characters for every    *)
(* length argument, and at least 43 for the default length /login uses.    *)
C24_VerifierLength ==
    /\ verifier.chars <= 128
    /\ verifier.length = DefaultLength => verifier.chars >= 43

(* The call /login makes: 64 random bytes give 86 characters *)
C24_Witness ==
    /\ verifier.length = DefaultLength
    /\ verifier.chars = token_urlsafe_len(DefaultLength)
    /\ verifier.chars = 86

(* C22: after a successful callback the session stores the token set the   *)
(* code exchange returned, and its user is the subject of the ID token     *)
(* that the callback verified.                                             *)
C22_PrincipalFromIdToken ==
    (last.op = "callback" /\ last.ans.result = "ok") =>
        /\ session.tokens = last.tok
        /\ last.tok.id_token.present
        /\ last.ans.verify = "ok"
        /\ session.user = last.tok.id_token.sub

(* C23: a JWKS response that is unreachable or malformed (a document with  *)
(* no key list) is never installed: the key list in the cache never comes  *)
(* from such a document.                                                   *)
C23_MalformedNeverInstalled ==
    origin.document # "nokeys"

(* C25: a callback that fails, at whichever step, leaves the session's     *)
(* user and tokens as they were before it.                                 *)
C25_FailedCallbackKeepsLogin ==
    (last.op = "callback" /\ last.ans.result # "ok") =>
        /\ session.user = last.pre.user
        /\ session.tokens = last.pre.tokens

(* A callback of an authenticated session that fails at the last step *)
C25_Witness ==
    /\ last.op = "callback"
    /\ last.ans.result = "userinfo_failed"
    /\ last.pre.user # 0
    /\ last.pre.tokens.present
    /\ session.user = last.pre.user

(* C26: the session's oauth_state, oauth_nonce and oauth_code_verifier are *)
(* all present or all absent, and when present they are the values of one  *)
(* login; the code_verifier a callback sends to the token endpoint and the *)
(* nonce it passes to the ID-token verification are those of the login     *)
(* whose state it matched.                                                 *)
C26_FlowStateBound ==
    /\ (session.oauth_state = 0) = (session.oauth_nonce = 0)
    /\ (session.oauth_state = 0) = (session.oauth_code_verifier = 0)
    /\ session.oauth_state # 0 =>
          \E n \in 1..logins :
              /\ session.oauth_state = generate_state(n)
              /\ session.oauth_nonce = generate_nonce(n)
              /\ session.oauth_code_verifier = generate_code_verifier(n)
    /\ (last.op = "callback" /\ last.ans.passed) =>
          \E n \in 1..logins :
              /\ last.args.state = generate_state(n)
              /\ last.ans.code_verifier = generate_code_verifier(n)
              /\ last.ans.verify # "skipped" =>
                    last.ans.nonce = generate_nonce(n)

(* A callback matching the second login's state that got to the ID-token   *)
(* verification                                                            *)
C26_Witness ==
    /\ last.op = "callback"
    /\ last.ans.passed
    /\ last.ans.verify # "skipped"
    /\ last.args.state = generate_state(MaxLogins)
    /\ last.ans.nonce = generate_nonce(MaxLogins)
    /\ last.ans.code_verifier = generate_code_verifier(MaxLogins)

(* C27: a login replaces a pending FlowState.  Once a later login has been *)
(* served, a callback carrying an earlier login's state fails the state    *)
(* check and changes nothing, and a callback is accepted only with the     *)
(* state of the most recent login.                                         *)
C27_NewLoginReplacesFlowState ==
    /\ (/\ ReachedStateCheck
        /\ \E n \in 1..(logins - 1) : last.args.state = generate_state(n))
       => (last.ans.result = "invalid_state" /\ session = last.pre)
    /\ (last.op = "callback" /\ last.ans.result = "ok")
       => last.args.state = generate_state(logins)
    /\ last.op = "login" => session.oauth_state = generate_state(logins)

(* The first login's state arrives while the second login is pending *)
C27_Witness ==
    /\ ReachedStateCheck
    /\ logins = 2
    /\ last.args.state = generate_state(1)
    /\ last.pre.oauth_state = generate_state(2)
    /\ last.ans.result = "invalid_state"
    /\ generate_state(1) \notin consumed

(* C28: a logout removes a pending FlowState with the rest of the session; *)
(* a callback that arrives afterwards with the state of the login that was *)
(* pending fails the state check, calls no endpoint and leaves the session *)
(* as it was.                                                              *)
C28_LogoutCancelsPendingLogin ==
    /\ last.op = "logout" => session = EmptySession
    /\ (ReachedStateCheck /\ last.args.state \in cancelled)
       => /\ last.ans.result = "invalid_state"
          /\ last.ans.tokenCalls = 0
          /\ session = last.pre

(* The callback of a login that a logout cancelled, on the session the     *)
(* logout left empty                                                       *)
C28_Witness ==
    /\ ReachedStateCheck
    /\ last.args.state \in cancelled
    /\ last.pre = EmptySession
    /\ last.ans.result = "invalid_state"
    /\ session.user = 0

(* C29: at most one reply is sent successfully for a delivery ID; a reply  *)
(* is sent only for an inbound message.received event whose signature      *)
(* verified; a delivery ID is recorded as processed only when its reply    *)
(* was sent.                                                               *)
C29_OneReplyPerDelivery ==
    /\ \A d \in DeliveryIds : replies[d] <= 1
    /\ \A t \in Threads :
          handling[t].pc = "send" =>
              /\ handling[t].request.type = "message.received"
              /\ handling[t].request.direction = "inbound"
              /\ handling[t].request.signature = "sha256=right"
    /\ \A d \in processed_deliveries : replies[d] >= 1

(* The request is no sendseven_verification challenge *)
NoChallenge ==
    /\ hook.pc = "done"
    /\ ~(hook.request.body = "object"
         /\ hook.request.type = "sendseven_verification")

(* The gate: an event handler runs only after the four headers were       *)
(* present and the signature verified, and once the signature verified the *)
(* response is 200 with the delivery ID.                                   *)
HandlerBehindGate ==
    NoChallenge =>
        /\ hook.response.handler # "none" =>
              (~HeadersMissing(hook.request) /\ hook.response.verified)
        /\ hook.response.verified =>
              /\ hook.response.status = 200
              /\ hook.response.delivery_id = hook.request.delivery_id

(* The refusals: a missing header gives 400 and a signature that does     *)
(* not verify gives 401, neither running a handler.                        *)
Refusals ==
    NoChallenge =>
        /\ HeadersMissing(hook.request) =>
              (hook.response.status = 400 /\ hook.response.handler = "none")
        /\ (~HeadersMissing(hook.request)
            /\ hook.request.signature # "sha256=right") =>
              (hook.response.status = 401 /\ hook.response.handler = "none")

(* C30: for every request that is no verification challenge, a handler     *)
(* runs only behind the gate, a missing header gives 400, a bad signature  *)
(* gives 401, and a verified signature gives 200 with the delivery ID.     *)
C30_WebhookGate ==
    HandlerBehindGate /\ Refusals

====
